---------------------------- MODULE Spec2Model ----------------------------
(***************************************************************************)
(* A model of src/date_processor.py: the three stages DateParser,          *)
(* WeekdayFilter and DateFormatter, and ProcessingPipeline chaining them.  *)
(*                                                                         *)
(* Python values are tagged records: a str is [kind |-> "str", s |-> ..],  *)
(* an int is [kind |-> "int", n |-> ..], a parsed record (the dict         *)
(* {'date': datetime, 'text': str}) is [kind |-> "dict", date, text]; a    *)
(* Python list is a sequence of such values.  A datetime at midnight is    *)
(* [year, month, day].  The outcome of a call is [raised, value, exc]:     *)
(* the value it returns, or the exception it raises.                       *)
(*                                                                         *)
(* datetime.strptime and datetime.strftime are modelled for the locale "C" *)
(* (the program never calls setlocale) and for patterns built from the     *)
(* directives %Y %m %d (parsing) and %A %B %Y %m %d (rendering), "%%" and  *)
(* literal characters other than white space.                              *)
(***************************************************************************)
EXTENDS Integers, Sequences, FiniteSets, TLC

VARIABLES processors, data, result, idx, pc, log, outcome, first

vars == <<processors, data, result, idx, pc, log, outcome, first>>

(***************************************************************************)
(* Bounds of the model.                                                    *)
(***************************************************************************)
MaxEntries == 2

MaxStages == 3

(***************************************************************************)
(* Python values.                                                          *)
(***************************************************************************)
Str(s) == [kind |-> "str", s |-> s]

PyInt(n) == [kind |-> "int", n |-> n]

Datetime(y, m, d) == [year |-> y, month |-> m, day |-> d]

Record(date, text) == [kind |-> "dict", date |-> date, text |-> text]

Returned(v) == [raised |-> FALSE, value |-> v, exc |-> ""]

Raised(e) == [raised |-> TRUE, value |-> <<>>, exc |-> e]

CharAt(s, i) == SubSeq(s, i, i)

(***************************************************************************)
(* str.find and str.split(sep, maxsplit), as called at line 25.            *)
(* maxsplit = -1 is Python's "no limit".                                   *)
(***************************************************************************)
RECURSIVE FindFrom(_, _, _)
FindFrom(s, sep, i) ==
    IF i + Len(sep) - 1 > Len(s) THEN 0
    ELSE IF SubSeq(s, i, i + Len(sep) - 1) = sep THEN i
    ELSE FindFrom(s, sep, i + 1)

RECURSIVE Split(_, _, _)
RECURSIVE SplitAt(_, _, _, _)
Split(s, sep, maxsplit) ==
    IF maxsplit = 0 THEN <<s>> ELSE SplitAt(s, sep, maxsplit, FindFrom(s, sep, 1))

\* at: where sep is first found in s, 0 when it is not
SplitAt(s, sep, maxsplit, at) ==
    IF at = 0 THEN <<s>>
    ELSE <<SubSeq(s, 1, at - 1)>>
         \o Split(SubSeq(s, at + Len(sep), Len(s)), sep, maxsplit - 1)

(***************************************************************************)
(* The calendar of the datetime module.                                    *)
(***************************************************************************)
Digits == "0123456789"

\* the character classes \d and [1-9]
Digit == {"0", "1", "2", "3", "4", "5", "6", "7", "8", "9"}

NonZero == Digit \ {"0"}

IsLeap(y) == y % 4 = 0 /\ (y % 100 # 0 \/ y % 400 = 0)

DaysInMonth(y, m) ==
    IF m = 2 THEN (IF IsLeap(y) THEN 29 ELSE 28)
    ELSE IF m \in {4, 6, 9, 11} THEN 30 ELSE 31

RECURSIVE DaysBeforeMonth(_, _)
DaysBeforeMonth(y, m) ==
    IF m = 1 THEN 0 ELSE DaysBeforeMonth(y, m - 1) + DaysInMonth(y, m - 1)

DaysBeforeYear(y) ==
    (y - 1) * 365 + (y - 1) \div 4 - (y - 1) \div 100 + (y - 1) \div 400

ToOrdinal(dt) ==
    DaysBeforeYear(dt.year) + DaysBeforeMonth(dt.year, dt.month) + dt.day

\* datetime.weekday(): 0 is Monday
Weekday(dt) == (ToOrdinal(dt) + 6) % 7

DayNames ==
    <<"Monday", "Tuesday", "Wednesday", "Thursday", "Friday", "Saturday",
      "Sunday">>

MonthNames ==
    <<"January", "February", "March", "April", "May", "June", "July",
      "August", "September", "October", "November", "December">>

(***************************************************************************)
(* datetime.strptime(date_str, format), as called at line 28.  The format  *)
(* becomes a regular expression, one token per directive or literal; the   *)
(* expression is matched at the start of the string, alternatives in       *)
(* order and with backtracking; the whole string must be consumed; the     *)
(* fields found must make a date of the calendar.                          *)
(***************************************************************************)
RECURSIVE FormatTokens(_, _)
FormatTokens(fmt, i) ==
    IF i > Len(fmt) THEN <<>>
    ELSE IF CharAt(fmt, i) = "%"
         THEN IF i = Len(fmt) THEN <<[t |-> "stray", c |-> ""]>>
              ELSE IF CharAt(fmt, i + 1) = "%"
                   THEN <<[t |-> "lit", c |-> "%"]>> \o FormatTokens(fmt, i + 2)
              ELSE IF CharAt(fmt, i + 1) \in {"Y", "m", "d"}
                   THEN <<[t |-> "dir", c |-> CharAt(fmt, i + 1)]>>
                        \o FormatTokens(fmt, i + 2)
              ELSE <<[t |-> "bad", c |-> CharAt(fmt, i + 1)]>>
         ELSE <<[t |-> "lit", c |-> CharAt(fmt, i)]>> \o FormatTokens(fmt, i + 1)

\* the alternatives of a directive's group, each a sequence of character classes
Alternatives(d) ==
    CASE d = "Y" -> << <<Digit, Digit, Digit, Digit>> >>
      [] d = "m" -> << <<{"1"}, {"0", "1", "2"}>>, <<{"0"}, NonZero>>,
                       <<NonZero>> >>
      [] d = "d" -> << <<{"3"}, {"0", "1"}>>, <<{"1", "2"}, Digit>>,
                       <<{"0"}, NonZero>>, <<NonZero>>, <<{" "}, NonZero>> >>

InClass(c, class) == c \in class

MatchesAt(s, pos, alt) ==
    /\ pos + Len(alt) - 1 <= Len(s)
    /\ \A j \in 1..Len(alt) : InClass(CharAt(s, pos + j - 1), alt[j])

NoMatch == [ok |-> FALSE, end |-> 0, groups |-> <<>>]

RECURSIVE MatchFrom(_, _, _, _, _)
RECURSIVE MatchAlternatives(_, _, _, _, _, _)
RECURSIVE TryAlternative(_, _, _, _, _, _, _)
MatchFrom(tokens, k, s, pos, groups) ==
    IF k > Len(tokens) THEN [ok |-> TRUE, end |-> pos, groups |-> groups]
    ELSE IF tokens[k].t = "lit"
         THEN IF pos <= Len(s) /\ CharAt(s, pos) = tokens[k].c
              THEN MatchFrom(tokens, k + 1, s, pos + 1, groups)
              ELSE NoMatch
         ELSE MatchAlternatives(tokens, k, s, pos, groups, 1)

\* the match that takes this alternative, or else the one that backtracks
OrElse(taken, backtracked) == IF taken.ok THEN taken ELSE backtracked

TryAlternative(tokens, k, s, pos, groups, a, alt) ==
    IF MatchesAt(s, pos, alt)
    THEN OrElse(MatchFrom(tokens, k + 1, s, pos + Len(alt),
                          Append(groups,
                                 <<tokens[k].c, SubSeq(s, pos, pos + Len(alt) - 1)>>)),
                MatchAlternatives(tokens, k, s, pos, groups, a + 1))
    ELSE MatchAlternatives(tokens, k, s, pos, groups, a + 1)

MatchAlternatives(tokens, k, s, pos, groups, a) ==
    IF a > Len(Alternatives(tokens[k].c)) THEN NoMatch
    ELSE TryAlternative(tokens, k, s, pos, groups, a, Alternatives(tokens[k].c)[a])

DigitValue(c) == CHOOSE n \in 0..9 : CharAt(Digits, n + 1) = c

\* int(text): leading white space is ignored
RECURSIVE ToInt(_)
ToInt(text) ==
    IF text = "" THEN 0
    ELSE IF CharAt(text, Len(text)) = " " THEN ToInt(SubSeq(text, 1, Len(text) - 1))
    ELSE 10 * ToInt(SubSeq(text, 1, Len(text) - 1))
         + DigitValue(CharAt(text, Len(text)))

HasGroup(groups, d) == \E i \in 1..Len(groups) : groups[i][1] = d

Group(groups, d) ==
    ToInt(groups[CHOOSE i \in 1..Len(groups) : groups[i][1] = d][2])

\* a month or day the format does not name is 1; a year it does not name
\* is 1900
Field(groups, d) == IF HasGroup(groups, d) THEN Group(groups, d) ELSE 1

\* datetime(year, month, day): MINYEAR is 1, the day must exist
MakeDate(year, month, day) ==
    IF year < 1 \/ day > DaysInMonth(year, month) THEN Raised("ValueError")
    ELSE Returned(Datetime(year, month, day))

DateOfMatch(found, length) ==
    IF ~found.ok \/ found.end # length + 1 THEN Raised("ValueError")
    ELSE MakeDate(IF HasGroup(found.groups, "Y") THEN Group(found.groups, "Y")
                  ELSE 1900,
                  Field(found.groups, "m"), Field(found.groups, "d"))

StrptimeTokens(date_str, tokens) ==
    IF \E k \in 1..Len(tokens) : tokens[k].t \in {"bad", "stray"}
    THEN Raised("ValueError")
    ELSE DateOfMatch(MatchFrom(tokens, 1, date_str, 1, <<>>), Len(date_str))

Strptime(date_str, fmt) == StrptimeTokens(date_str, FormatTokens(fmt, 1))

(***************************************************************************)
(* datetime.strftime(format), as called at lines 51 and 66.                *)
(***************************************************************************)
RECURSIVE Decimal(_)
Decimal(n) ==
    IF n < 10 THEN CharAt(Digits, n + 1)
    ELSE Decimal(n \div 10) \o CharAt(Digits, (n % 10) + 1)

TwoDigits(n) == IF n < 10 THEN "0" \o Decimal(n) ELSE Decimal(n)

Render(dt, d) ==
    CASE d = "A" -> DayNames[Weekday(dt) + 1]
      [] d = "B" -> MonthNames[dt.month]
      [] d = "d" -> TwoDigits(dt.day)
      [] d = "m" -> TwoDigits(dt.month)
      [] d = "Y" -> Decimal(dt.year)
      [] d = "%" -> "%"
      [] OTHER -> "%" \o d

RECURSIVE StrftimeFrom(_, _, _)
StrftimeFrom(dt, fmt, i) ==
    IF i > Len(fmt) THEN ""
    ELSE IF CharAt(fmt, i) = "%" /\ i < Len(fmt)
         THEN Render(dt, CharAt(fmt, i + 1)) \o StrftimeFrom(dt, fmt, i + 2)
         ELSE CharAt(fmt, i) \o StrftimeFrom(dt, fmt, i + 1)

Strftime(dt, fmt) == StrftimeFrom(dt, fmt, 1)

(***************************************************************************)
(* The stage instances: each holds only the configuration its constructor  *)
(* stores (lines 14-15, 44-45, 60-61).                                     *)
(***************************************************************************)
DateParser(date_format) ==
    [cls |-> "DateParser", date_format |-> date_format]

WeekdayFilter(allowed_days) ==
    [cls |-> "WeekdayFilter", allowed_days |-> allowed_days]

DateFormatter(output_format) ==
    [cls |-> "DateFormatter", output_format |-> output_format]

\* a list kept from the first call (a list made once, not per call)
KeptList == IF first.set THEN first.outcome.value ELSE <<>>

\* results = [] / filtered = [] / formatted_entries = []: a new list per call
NewList == <<>>

\* list.insert(0, x) in place of list.append(x)
ListInsertFirst(list, x) == <<x>> \o list

\* results.append(..) / filtered.append(..) / formatted_entries.append(..)
ListAppend(list, x) == Append(list, x)

(***************************************************************************)
(* DateParser.process (lines 17-38).                                       *)
(***************************************************************************)
IsInstanceStr(entry) == entry.kind = "str"

\* entry.split(": ")[:2]: a split at every separator, the first two parts kept
SplitEntryEverywhere(entry) ==
    IF Len(Split(entry.s, ": ", -1)) >= 2
    THEN Returned(SubSeq(Split(entry.s, ": ", -1), 1, 2))
    ELSE Raised("ValueError")

\* date_str, text = ...: unpacking needs exactly two parts
Unpack(parts) ==
    IF Len(parts) = 2 THEN Returned(parts) ELSE Raised("ValueError")

\* entry.split(": ", 1), line 25
SplitEntry(entry) == Unpack(Split(entry.s, ": ", 1))

\* results.append({'date': date_obj, 'text': text}), unless strptime raised
MakeRecord(date_obj, text) ==
    IF date_obj.raised THEN date_obj
    ELSE Returned(Record(date_obj.value, text))

ParseParts(self, parts) ==
    IF parts.raised THEN parts
    ELSE MakeRecord(Strptime(parts.value[1], self.date_format), parts.value[2])

\* the body of the try statement, lines 25-33
ParseEntry(self, entry) == ParseParts(self, SplitEntry(entry))

\* except TypeError: an except clause too narrow for what the body raises
CatchesTypeError(exc) == exc = "TypeError"

\* except Exception: every exception the body can raise is an Exception
Catches(exc) == exc \in {"ValueError", "TypeError", "KeyError"}

RECURSIVE ParserLoop(_, _, _, _)
RECURSIVE AfterTry(_, _, _, _, _)
ParserLoop(self, entries, i, results) ==
    IF i > Len(entries) THEN Returned(results)
    ELSE IF ~IsInstanceStr(entries[i])
         THEN ParserLoop(self, entries, i + 1, results)
    ELSE AfterTry(self, entries, i, results, ParseEntry(self, entries[i]))

\* an except clause that ends the loop (break) instead of going on (continue)
AfterTryBreaks(self, entries, i, results, r) ==
    IF r.raised
    THEN IF r.exc \in {"ValueError", "TypeError", "KeyError"}
         THEN Returned(results)
         ELSE r
    ELSE ParserLoop(self, entries, i + 1, ListAppend(results, r.value))

\* r: what the body of the try statement did with entries[i]
AfterTry(self, entries, i, results, r) ==
    IF r.raised
    THEN IF Catches(r.exc) THEN ParserLoop(self, entries, i + 1, results)
         ELSE r
    ELSE ParserLoop(self, entries, i + 1, ListAppend(results, r.value))

ParserProcess(self, entries) == ParserLoop(self, entries, 1, NewList)

(***************************************************************************)
(* entry[key] on a list element: only a dict can be subscripted by a str.  *)
(***************************************************************************)
Subscript(entry, key) ==
    IF entry.kind = "dict" THEN Returned(entry[key]) ELSE Raised("TypeError")

(***************************************************************************)
(* WeekdayFilter.process (lines 47-54).                                    *)
(***************************************************************************)
\* the test of line 52 turned around
KeepsOthers(self, day_name) == day_name \notin self.allowed_days

Keeps(self, day_name) == day_name \in self.allowed_days

RECURSIVE FilterLoop(_, _, _, _)
FilterLoop(self, entries, i, filtered) ==
    IF i > Len(entries) THEN Returned(filtered)
    ELSE LET date == Subscript(entries[i], "date") IN
         IF date.raised THEN date
         ELSE IF Keeps(self, Strftime(date.value, "%A"))
              THEN FilterLoop(self, entries, i + 1, ListAppend(filtered, entries[i]))
              ELSE FilterLoop(self, entries, i + 1, filtered)

FilterProcess(self, entries) == FilterLoop(self, entries, 1, NewList)

(***************************************************************************)
(* DateFormatter.process (lines 63-68).                                    *)
(***************************************************************************)
\* an f-string without the blank after the colon
FormatEntryNoBlank(formatted_date, text) == Str(formatted_date \o ":" \o text)

\* f"{formatted_date}: {entry['text']}"
FormatEntry(formatted_date, text) == Str(formatted_date \o ": " \o text)

RECURSIVE FormatterLoop(_, _, _, _)
FormatterLoop(self, entries, i, formatted_entries) ==
    IF i > Len(entries) THEN Returned(formatted_entries)
    ELSE LET date == Subscript(entries[i], "date")
             text == Subscript(entries[i], "text")
         IN IF date.raised THEN date
            ELSE IF text.raised THEN text
            ELSE FormatterLoop(self, entries, i + 1,
                     ListAppend(formatted_entries,
                                FormatEntry(Strftime(date.value,
                                                     self.output_format),
                                            text.value)))

FormatterProcess(self, entries) == FormatterLoop(self, entries, 1, NewList)

\* processor.process(result): dispatch on the class of the stage
StageProcess(self, entries) ==
    CASE self.cls = "DateParser" -> ParserProcess(self, entries)
      [] self.cls = "WeekdayFilter" -> FilterProcess(self, entries)
      [] self.cls = "DateFormatter" -> FormatterProcess(self, entries)

(***************************************************************************)
(* The inputs of the model: stage instances, pipelines, list elements.     *)
(***************************************************************************)
Stages ==
    { DateParser("%Y-%m-%d"),
      WeekdayFilter({"Monday", "Wednesday"}),
      DateFormatter("%A, %B %d") }

\* pipelines of stages with other configurations
ConfiguredPipelines ==
    { <<DateParser("%d/%m/%Y")>>,
      <<DateParser("%d/%m/%Y"), WeekdayFilter({"Monday"}),
        DateFormatter("%B %d, %Y")>>,
      <<DateParser("%Y-%m-%d"), WeekdayFilter({})>>,
      <<DateParser("%Y-%m-%d"), WeekdayFilter({"Tuesday"}),
        DateFormatter("%Y/%m/%d")>> }

Pipelines ==
    UNION {[1..n -> Stages] : n \in 0..MaxStages} \cup ConfiguredPipelines

ReusePipelines ==
    { <<>>,
      <<DateParser("%Y-%m-%d")>>,
      <<WeekdayFilter({"Monday", "Wednesday"})>>,
      <<DateParser("%Y-%m-%d"), WeekdayFilter({"Monday", "Wednesday"}),
        DateFormatter("%A, %B %d")>>,
      <<DateParser("%Y-%m-%d"), DateFormatter("%B %d, %Y"),
        WeekdayFilter({"Monday", "Wednesday"})>> }

Entries ==
    { Str("2024-10-14: a"),
      Str("2024-10-15: b: c"),
      Str("2024-10-16: "),
      Str("14/10/2024: d"),
      Str("Not a date"),
      Str("2024-02-30: x"),
      PyInt(42),
      Record(Datetime(2024, 10, 14), "r") }

Inputs == UNION {[1..n -> Entries] : n \in 0..MaxEntries}

NoFirst ==
    [set |-> FALSE, again |-> FALSE, data |-> <<>>, outcome |-> Returned(<<>>)]

Event(ev, stage, val) == [ev |-> ev, stage |-> stage, val |-> val]

(***************************************************************************)
(* ProcessingPipeline (lines 71-81).  Init is the state after the          *)
(* constructor: the stage list is stored, nothing has been processed.      *)
(***************************************************************************)
Init ==
    /\ processors \in Pipelines
    /\ data = <<>>
    /\ result = <<>>
    /\ idx = 0
    /\ pc = "idle"
    /\ log = <<>>
    /\ outcome = Returned(<<>>)
    /\ first = NoFirst

InitReuse ==
    /\ processors \in ReusePipelines
    /\ data = <<>>
    /\ result = <<>>
    /\ idx = 0
    /\ pc = "idle"
    /\ log = <<>>
    /\ outcome = Returned(<<>>)
    /\ first = NoFirst

\* a pipeline that hands every stage the caller's data
StageArgData == data

\* the argument of processor.process at line 80
StageArg == result

\* a loop that steps over every other processor
NextIndexSkipping(i) == i + 2

\* the for statement takes the next processor of the list
NextIndex(i) == i + 1

\* a loop that drops the exception and goes on with the next stage
OnStageErrorGoOn(i) == [pc |-> "loop", idx |-> i + 1]

\* line 80 has no try statement: an exception of a stage leaves process
OnStageError(i) == [pc |-> "raised", idx |-> i]

\* what the caller saw of the first call of process, to compare later calls
Remember(o) ==
    IF first.set THEN first
    ELSE [set |-> TRUE, again |-> FALSE, data |-> data, outcome |-> o]

\* def process(self, data): result = data
Enter(d) ==
    /\ data' = d
    /\ result' = d
    /\ idx' = 1
    /\ pc' = "loop"
    /\ log' = <<>>
    /\ outcome' = Returned(<<>>)
    /\ UNCHANGED processors

\* the first call of process, on any input
Process ==
    /\ pc = "idle"
    /\ \E d \in Inputs : Enter(d)
    /\ UNCHANGED first

\* a later call of process on the same pipeline: on the input of the first
\* call, or on another one
ProcessAgain ==
    /\ pc \in {"done", "raised"}
    /\ \E d \in {first.data, <<>>, <<Str("2024-10-16: ")>>} : Enter(d)
    /\ first' = [first EXCEPT !.again = TRUE]

\* for processor in self.processors: processor.process(result) is entered
CallStage ==
    /\ pc = "loop"
    /\ idx <= Len(processors)
    /\ pc' = "in_stage"
    /\ log' = Append(log, Event("call", idx, StageArg))
    /\ UNCHANGED <<processors, data, result, idx, outcome, first>>

\* result = processor.process(result)
Returns(r) ==
    /\ ~r.raised
    /\ result' = r.value
    /\ log' = Append(log, Event("return", idx, r.value))
    /\ idx' = NextIndex(idx)
    /\ pc' = "loop"
    /\ UNCHANGED <<processors, data, outcome, first>>

StageReturns ==
    /\ pc = "in_stage"
    /\ Returns(StageProcess(processors[idx], log[Len(log)].val))

\* processor.process(result) raises
Raises(r) ==
    /\ r.raised
    /\ log' = Append(log, Event("raise", idx, <<>>))
    /\ pc' = OnStageError(idx).pc
    /\ idx' = OnStageError(idx).idx
    /\ IF OnStageError(idx).pc = "raised"
       THEN outcome' = r /\ first' = Remember(r)
       ELSE UNCHANGED <<outcome, first>>
    /\ UNCHANGED <<processors, data, result>>

StageRaises ==
    /\ pc = "in_stage"
    /\ Raises(StageProcess(processors[idx], log[Len(log)].val))

\* return result
Return ==
    /\ pc = "loop"
    /\ idx > Len(processors)
    /\ pc' = "done"
    /\ outcome' = Returned(result)
    /\ first' = Remember(Returned(result))
    /\ UNCHANGED <<processors, data, result, idx, log>>

Next ==
    \/ Process
    \/ CallStage
    \/ StageReturns
    \/ StageRaises
    \/ Return

NextReuse ==
    \/ Process
    \/ CallStage
    \/ StageReturns
    \/ StageRaises
    \/ Return
    \/ ProcessAgain

Spec == Init /\ [][Next]_vars

SpecReuse == InitReuse /\ [][NextReuse]_vars

(***************************************************************************)
(* What the log of one call of ProcessingPipeline.process records: the     *)
(* k-th event is the call of a stage with its argument, its return with    *)
(* the value returned, or the exception it raised.                         *)
(***************************************************************************)
\* the calls of stages of class cls that have returned
Completed(cls) ==
    {k \in 1..(Len(log) - 1) :
        /\ log[k].ev = "call"
        /\ log[k + 1].ev = "return"
        /\ processors[log[k].stage].cls = cls}

\* the call of a stage of class cls that has just returned.  The log of a
\* call of process is only appended to, so every completed call of a stage
\* is the last one in the state that follows its return: what holds of
\* JustReturned in every state holds of every member of Completed.
JustReturned(cls) ==
    {k \in {Len(log) - 1} :
        /\ pc = "loop"
        /\ k >= 1
        /\ log[k + 1].ev = "return"
        /\ processors[log[k].stage].cls = cls}

ArgOf(k) == log[k].val

ValueOf(k) == log[k + 1].val

StageOf(k) == processors[log[k].stage]

\* the outcome of s_n.process(... s_1.process(x) ...)
RECURSIVE Composed(_, _, _)
Then(prev, stage) ==
    IF prev.raised THEN prev ELSE StageProcess(stage, prev.value)

Composed(stages, n, x) ==
    IF n = 0 THEN Returned(x)
    ELSE Then(Composed(stages, n - 1, x), stages[n])

Monday14 == Datetime(2024, 10, 14)

Tuesday15 == Datetime(2024, 10, 15)

Wednesday16 == Datetime(2024, 10, 16)

ParseFilterFormat ==
    <<DateParser("%Y-%m-%d"), WeekdayFilter({"Monday", "Wednesday"}),
      DateFormatter("%A, %B %d")>>

(***************************************************************************)
(* C1: when ProcessingPipeline.process returns, the value returned is      *)
(* s_n.process(... s_2.process(s_1.process(x)) ...) for the stage list     *)
(* <<s_1, ..., s_n>> and the input x; the first stage is called with x     *)
(* and every later stage with the value the stage before it returned.      *)
(***************************************************************************)
C1_Composition ==
    /\ pc = "done" =>
          outcome = Composed(processors, Len(processors), data)
    /\ \A k \in 1..Len(log) :
          log[k].ev = "call" =>
             log[k].val = IF k = 1 THEN data ELSE log[k - 1].val

\* scenario 5 of the specification, with the Tuesday entry left out
C1_Witness ==
    /\ pc = "done"
    /\ processors = ParseFilterFormat
    /\ data = <<Str("2024-10-14: a"), Str("2024-10-16: ")>>
    /\ outcome = Returned(<<Str("Monday, October 14: a"),
                            Str("Wednesday, October 16: ")>>)

(***************************************************************************)
(* C2: during one call of ProcessingPipeline.process the stages are        *)
(* called in the order of the list, one after the other: the events are    *)
(* call 1, return 1, call 2, return 2, ...; a stage is called only when    *)
(* the one before has returned; when process returns every stage has been  *)
(* called and has returned exactly once.                                   *)
(***************************************************************************)
C2_InvocationOrder ==
    /\ \A k \in 1..Len(log) :
          /\ log[k].stage = (k + 1) \div 2
          /\ log[k].stage <= Len(processors)
          /\ (k % 2 = 1) = (log[k].ev = "call")
    /\ pc = "in_stage" <=> Len(log) % 2 = 1
    /\ pc = "done" =>
          /\ Len(log) = 2 * Len(processors)
          /\ \A k \in 1..Len(log) : k % 2 = 0 => log[k].ev = "return"

C2_Witness ==
    /\ pc = "done"
    /\ Len(processors) = MaxStages
    /\ Len(log) = 2 * MaxStages
    /\ data # <<>>

(***************************************************************************)
(* The elements DateParser is to keep, stated on the text of the element:  *)
(* a str in which ": " occurs and whose part before the first ": " is a    *)
(* date under the pattern.                                                 *)
(***************************************************************************)
SeparatorAt(text, p) == SubSeq(text, p, p + 1) = ": "

\* the positions of the first ": " of text: none, or one
FirstSeparator(text) ==
    {p \in 1..(Len(text) - 1) :
        SeparatorAt(text, p) /\ \A q \in 1..(p - 1) : ~SeparatorAt(text, q)}

Qualifies(x, pattern) ==
    /\ x.kind = "str"
    /\ \E p \in FirstSeparator(x.s) :
          ~Strptime(SubSeq(x.s, 1, p - 1), pattern).raised

DateIn(x, pattern) ==
    Strptime(SubSeq(x.s, 1, (CHOOSE p \in FirstSeparator(x.s) : TRUE) - 1),
             pattern).value

\* the positions of entries whose element qualifies, and the n-th of them
Qualifying(entries, pattern) ==
    {i \in 1..Len(entries) : Qualifies(entries[i], pattern)}

Nth(positions, n) ==
    CHOOSE i \in positions : Cardinality({j \in positions : j <= i}) = n

\* a date of the calendar, stated without the datetime module's own test
IsCalendarDate(dt) ==
    /\ dt.year \in 1..9999
    /\ dt.month \in 1..12
    /\ dt.day >= 1
    /\ dt.day <= <<31, 29, 31, 30, 31, 30, 31, 31, 30, 31, 30, 31>>[dt.month]
    /\ (dt.month = 2 /\ dt.day = 29) =>
          (dt.year % 400 = 0 \/ (dt.year % 4 = 0 /\ dt.year % 100 # 0))

EmitsFor(entries, pattern, results, positions) ==
    /\ Len(results) = Cardinality(positions)
    /\ Len(results) <= Len(entries)
    /\ \A n \in 1..Len(results) :
          /\ results[n].kind = "dict"
          /\ IsCalendarDate(results[n].date)
          /\ results[n].date = DateIn(entries[Nth(positions, n)], pattern)

(***************************************************************************)
(* C3: DateParser.process emits one record per element that is a str,      *)
(* contains ": " and whose part before the first ": " parses under the     *)
(* configured pattern, and none for any other element; so the output is    *)
(* no longer than the input, its n-th record carries the date parsed from  *)
(* the n-th such element, and that date is a date of the calendar.         *)
(***************************************************************************)
C3_ParserEmits ==
    \A k \in JustReturned("DateParser") :
        EmitsFor(ArgOf(k), StageOf(k).date_format, ValueOf(k),
                 Qualifying(ArgOf(k), StageOf(k).date_format))

\* an element that is no date of the calendar, before one that is kept
C3_Witness ==
    \E k \in Completed("DateParser") :
        /\ StageOf(k).date_format = "%Y-%m-%d"
        /\ ArgOf(k) = <<Str("2024-02-30: x"), Str("2024-10-15: b: c")>>
        /\ ValueOf(k) = <<Record(Tuesday15, "b: c")>>

(***************************************************************************)
(* C4: no exception leaves DateParser.process: a call of the stage always  *)
(* returns a list, whatever the elements; an element whose parsing raises  *)
(* is dropped and the elements after it are still processed, so the list   *)
(* holds one record per str element whose parsing does not raise.          *)
(***************************************************************************)
C4_ParserNeverRaises ==
    /\ \A k \in 1..Len(log) :
          log[k].ev = "raise" => processors[log[k].stage].cls # "DateParser"
    /\ \A k \in JustReturned("DateParser") :
          Len(ValueOf(k)) =
             Cardinality({i \in 1..Len(ArgOf(k)) :
                             /\ ArgOf(k)[i].kind = "str"
                             /\ ~ParseEntry(StageOf(k), ArgOf(k)[i]).raised})

\* the first element raises in split's unpacking, the second in strptime
\* under this pattern, and the call returns the empty list
C4_Witness ==
    \E k \in Completed("DateParser") :
        /\ StageOf(k).date_format = "%d/%m/%Y"
        /\ ArgOf(k) = <<Str("Not a date"), Str("2024-10-16: ")>>
        /\ SplitEntry(ArgOf(k)[1]).raised
        /\ ~SplitEntry(ArgOf(k)[2]).raised
        /\ ParseEntry(StageOf(k), ArgOf(k)[2]).raised
        /\ ValueOf(k) = <<>>

(***************************************************************************)
(* The name of the day of the week by Zeller's congruence, which is not    *)
(* how the datetime module finds it.                                       *)
(***************************************************************************)
ZellerNames ==
    <<"Saturday", "Sunday", "Monday", "Tuesday", "Wednesday", "Thursday",
      "Friday">>

Zeller(q, m, y) ==
    (q + ((13 * (m + 1)) \div 5) + (y % 100) + ((y % 100) \div 4)
       + ((y \div 100) \div 4) + (5 * (y \div 100))) % 7

WeekdayName(dt) ==
    ZellerNames[1 + (IF dt.month < 3
                     THEN Zeller(dt.day, dt.month + 12, dt.year - 1)
                     ELSE Zeller(dt.day, dt.month, dt.year))]

IsAllowed(self, r) == WeekdayName(r.date) \in self.allowed_days

RECURSIVE Allowed(_, _)
Allowed(self, entries) ==
    IF entries = <<>> THEN <<>>
    ELSE (IF IsAllowed(self, Head(entries)) THEN <<Head(entries)>> ELSE <<>>)
         \o Allowed(self, Tail(entries))

(***************************************************************************)
(* C5: the output of WeekdayFilter.process holds exactly the records of    *)
(* its input whose date falls on a day of the week in allowed_days, each   *)
(* as it was in the input (same date, same text).                          *)
(***************************************************************************)
C5_FilterKeepsAllowed ==
    \A k \in JustReturned("WeekdayFilter") :
        /\ \A i \in 1..Len(ArgOf(k)) : ArgOf(k)[i].kind = "dict"
        /\ ValueOf(k) = Allowed(StageOf(k), ArgOf(k))

\* scenario 3 of the specification: a Monday and a Tuesday
C5_Witness ==
    \E k \in Completed("WeekdayFilter") :
        /\ StageOf(k).allowed_days = {"Monday", "Wednesday"}
        /\ ArgOf(k) = <<Record(Monday14, "a"), Record(Tuesday15, "b: c")>>
        /\ ValueOf(k) = <<Record(Monday14, "a")>>

(***************************************************************************)
(* C6: DateFormatter.process returns a list as long as its input, whose    *)
(* i-th element is the str made of the i-th record's date rendered under   *)
(* output_format, then ": ", then that record's text.                      *)
(***************************************************************************)
C6_FormatterRenders ==
    \A k \in JustReturned("DateFormatter") :
        /\ Len(ValueOf(k)) = Len(ArgOf(k))
        /\ \A i \in 1..Len(ArgOf(k)) :
              /\ ValueOf(k)[i].kind = "str"
              /\ ValueOf(k)[i].s =
                    Strftime(ArgOf(k)[i].date, StageOf(k).output_format)
                       \o ": " \o ArgOf(k)[i].text
              /\ SubSeq(ValueOf(k)[i].s,
                        Len(ValueOf(k)[i].s) - Len(ArgOf(k)[i].text) - 1,
                        Len(ValueOf(k)[i].s)) = ": " \o ArgOf(k)[i].text

C6_Witness ==
    \E k \in Completed("DateFormatter") :
        /\ StageOf(k).output_format = "%Y/%m/%d"
        /\ ArgOf(k) = <<Record(Tuesday15, "b: c")>>
        /\ ValueOf(k) = <<Str("2024/10/15: b: c")>>

(***************************************************************************)
(* What a stage, or a whole stage list, makes of each element taken alone, *)
(* joined in the order of the elements.                                    *)
(***************************************************************************)
RECURSIVE EachAlone(_, _, _)
Joined(one, others) ==
    IF one.raised \/ others.raised THEN Raised("raised on one element")
    ELSE IF Len(one.value) > 1 THEN Raised("two outputs of one element")
    ELSE Returned(one.value \o others.value)

EachAlone(stages, n, entries) ==
    IF entries = <<>> THEN Returned(<<>>)
    ELSE Joined(Composed(stages, n, <<Head(entries)>>),
                EachAlone(stages, n, Tail(entries)))

(***************************************************************************)
(* C7: no stage, and no pipeline of stages, reorders or duplicates: every  *)
(* element yields at most one output, and the output of a call is the      *)
(* outputs of its surviving elements in the order of those elements in     *)
(* the input.                                                              *)
(***************************************************************************)
C7_OrderPreserved ==
    /\ \A cls \in {"DateParser", "WeekdayFilter", "DateFormatter"} :
          \A k \in JustReturned(cls) :
              EachAlone(<<StageOf(k)>>, 1, ArgOf(k)) = Returned(ValueOf(k))
    /\ pc = "done" =>
          EachAlone(processors, Len(processors), data) = outcome

\* two different entries both survive parse, filter and format
C7_Witness ==
    /\ pc = "done"
    /\ processors = ParseFilterFormat
    /\ data = <<Str("2024-10-16: "), Str("2024-10-14: a")>>
    /\ outcome.value = <<Str("Wednesday, October 16: "),
                         Str("Monday, October 14: a")>>
    /\ \A k \in {1, 3, 5} : Len(ValueOf(k)) = 2

(***************************************************************************)
(* C8: a call of process changes neither the stage list and the            *)
(* configuration of its stages nor the caller's input, and keeps nothing:  *)
(* whatever calls came before, a call on the input of the first call ends  *)
(* as the first call did (same value returned, or same exception).         *)
(***************************************************************************)
C8_SameOutputAgain ==
    /\ [][processors' = processors]_vars
    /\ [][(pc \in {"loop", "in_stage"}) => (data' = data)]_vars
    /\ []((first.set /\ pc \in {"done", "raised"} /\ data = first.data) =>
             outcome = first.outcome)
    /\ [](pc = "done" => outcome = Composed(processors, Len(processors), data))

\* a later call on the first call's input has returned its two strings again
C8_Witness ==
    /\ first.again
    /\ pc = "done"
    /\ processors = ParseFilterFormat
    /\ data = first.data
    /\ Len(data) = 2
    /\ Len(outcome.value) = 2

\* text is all of the element x after its first ": "
IsTextOf(text, x) ==
    \E p \in FirstSeparator(x.s) : text = SubSeq(x.s, p + 2, Len(x.s))

TextsFor(entries, results, positions) ==
    /\ Len(results) = Cardinality(positions)
    /\ \A n \in 1..Len(results) :
          IsTextOf(results[n].text, entries[Nth(positions, n)])
    /\ \A i \in 1..Len(entries) :
          (entries[i].kind = "str" /\ Len(entries[i].s) - 1 \in FirstSeparator(entries[i].s))
             => (i \in positions) =
                   (\E n \in 1..Len(results) : Nth(positions, n) = i /\ results[n].text = "")

(***************************************************************************)
(* C9: DateParser splits at the first ": " only: the text of a record is   *)
(* all that follows the first ": " of its element, further ": " included,  *)
(* and an element that ends with its first ": " yields the text "".        *)
(***************************************************************************)
C9_SplitAtFirstSeparator ==
    \A k \in JustReturned("DateParser") :
        TextsFor(ArgOf(k), ValueOf(k), Qualifying(ArgOf(k), StageOf(k).date_format))

\* a text with a second ": " in it, and an empty text
C9_Witness ==
    \E k \in Completed("DateParser") :
        /\ ArgOf(k) = <<Str("2024-10-15: b: c"), Str("2024-10-16: ")>>
        /\ ValueOf(k) = <<Record(Tuesday15, "b: c"), Record(Wednesday16, "")>>

(***************************************************************************)
(* C10: ProcessingPipeline.process catches nothing: when a stage raises,   *)
(* the call of process ends with that exception, no stage is called after  *)
(* it and no value is returned; a stage raises exactly when its process    *)
(* raises on its argument.  With an empty stage list process returns its   *)
(* input as it is.                                                         *)
(***************************************************************************)
C10_ErrorPropagates ==
    /\ \A k \in 1..Len(log) :
          log[k].ev = "raise" => (k = Len(log) /\ pc = "raised")
    /\ \A k \in {Len(log) - 1} :
          (k >= 1 /\ log[k].ev = "call" /\ pc \in {"loop", "raised"}) =>
             (log[k + 1].ev = "raise") = StageProcess(StageOf(k), ArgOf(k)).raised
    /\ pc = "raised" =>
          /\ log[Len(log)].ev = "raise"
          /\ outcome.raised
          /\ outcome.value = <<>>
          /\ outcome = StageProcess(processors[idx], log[Len(log) - 1].val)
    /\ pc = "done" => ~outcome.raised
    /\ (pc = "done" /\ processors = <<>>) => (outcome = Returned(data) /\ log = <<>>)

\* a filter placed before the parser is handed a str: the first of three
\* stages raises TypeError and the two after it are never called
C10_Witness ==
    /\ pc = "raised"
    /\ Len(processors) = 3
    /\ processors[1].cls = "WeekdayFilter"
    /\ processors[2].cls = "DateParser"
    /\ data = <<Str("2024-10-14: a")>>
    /\ outcome = Raised("TypeError")
    /\ Len(log) = 2

=============================================================================
